---- MODULE Spec2Model ----
(***************************************************************************)
(* The idempotent CSV -> Postgres loader of shopflow-pipeline               *)
(* (src/src/etl/load_to_db.py): main() as a state machine over a           *)
(* transactional store, load_table() row by row, upsert_sql() as the       *)
(* statement the store interprets; and its S3 upload stage                 *)
(* (src/src/cloud/s3_handler.py): main() and backoff_upload().             *)
(***************************************************************************)
EXTENDS Integers, Sequences, FiniteSets, TLC

VARIABLES
    db,      \* the committed (externally visible) contents of the store
    run,     \* run[r]: the r-th invocation of main(): its locals, connection, position
    now,     \* the wall clock read by dt.datetime.utcnow()
    issued,  \* how many batch identifiers uuid.uuid4() has issued
    budget,  \* how many environment faults (lost connection, closed stdout) may still occur
    chunk,   \* the chunk size of load_table (the literal of line 77)
    commits, \* the runs whose COMMIT the store has acknowledged, oldest first
    up       \* one invocation of the S3 upload stage (src/src/cloud/s3_handler.py)

vars == <<db, run, now, issued, budget, chunk, commits, up>>

---------------------------------------------------------------------------
(* Bounds of the model *)

MaxRuns == 2      \* invocations of main()
MaxRows == 3      \* records of the largest input file
ChunkSize == 2    \* the loader's chunk size (1000 in the code), scaled to the inputs
MaxFaults == 2    \* environment faults in one behaviour
MaxRecords == 4   \* customer records submitted in one behaviour of SpecLoad
MaxRetries == 6   \* the largest max_retries backoff_upload is called with
MaxDatasets == 2  \* names given to --datasets
MaxPrintFaults == 1  \* prints that raise in one behaviour of SpecUpload

Runs == 1..MaxRuns

---------------------------------------------------------------------------
(* Configuration: FILES, DDL *)

\* faulty variant: the datasets are walked in the opposite order
TableOrder_reversed == <<"public.transactions", "public.products", "public.customers">>

\* the keys of FILES in the order FILES.items() yields them
TableOrder == <<"public.customers", "public.products", "public.transactions">>

TableSet == {TableOrder[i] : i \in 1..Len(TableOrder)}

FILES ==
    [t \in TableSet |->
        CASE t = "public.customers" ->
               [filename |-> "customers.csv",
                cols |-> <<"id", "name", "email", "registration_date", "country">>,
                pk |-> "id"]
          [] t = "public.products" ->
               [filename |-> "products.csv",
                cols |-> <<"id", "name", "category", "price", "supplier">>,
                pk |-> "id"]
          [] t = "public.transactions" ->
               [filename |-> "transactions.csv",
                cols |-> <<"id", "customer_id", "product_id", "quantity", "timestamp",
                           "payment_method">>,
                pk |-> "id"]]

\* the statements of DDL, in order: the audit table, then the metadata
\* column of each data table
DDL ==
    <<[op |-> "create", table |-> "public.load_audit"],
      [op |-> "alter", table |-> "public.customers"],
      [op |-> "alter", table |-> "public.products"],
      [op |-> "alter", table |-> "public.transactions"]>>

LOAD_DATE == "today"

\* finished_at_utc is nullable; a timestamp is a clock reading >= 1
NullTs == 0

Range(s) == {s[i] : i \in 1..Len(s)}

Index(s, c) == CHOOSE i \in 1..Len(s) : s[i] = c

---------------------------------------------------------------------------
(* The statement built by upsert_sql, and what the store does with it *)

\* faulty variant: the conflict clause leaves _ingested_at as it was
upsert_sql_keeps_stamp(table, cols, pk) ==
    [table |-> table,
     col_list |-> cols \o <<"_ingested_at">>,
     conflict |-> pk,
     updates |-> SelectSeq(cols, LAMBDA c : c # pk)]

\* faulty variant: the conflict clause forgets the last declared column
upsert_sql_drops_col(table, cols, pk) ==
    [table |-> table,
     col_list |-> cols \o <<"_ingested_at">>,
     conflict |-> pk,
     updates |-> SelectSeq(SubSeq(cols, 1, Len(cols) - 1), LAMBDA c : c # pk)
                   \o <<"_ingested_at">>]

\* INSERT INTO table (col_list) VALUES (...) ON CONFLICT (pk) DO UPDATE SET updates
upsert_sql(table, cols, pk) ==
    [table |-> table,
     col_list |-> cols \o <<"_ingested_at">>,
     conflict |-> pk,
     updates |-> SelectSeq(cols, LAMBDA c : c # pk) \o <<"_ingested_at">>]

\* a value the store cannot coerce to the column's type
Uncoercible == "n/a"

Rejected(vals) == \E i \in 1..Len(vals) - 1 : vals[i] = Uncoercible

\* faulty variant: on a conflict the SET clause is applied to every row
ExecUpsert_updates_all(rows, sql, vals) ==
    LET new == [c \in Range(sql.col_list) |-> vals[Index(sql.col_list, c)]]
        hit == {x \in rows : x[sql.conflict] = new[sql.conflict]}
    IN  IF hit = {}
        THEN rows \cup {new}
        ELSE {[c \in DOMAIN x |-> IF c \in Range(sql.updates) THEN new[c] ELSE x[c]] :
                 x \in rows}

\* one execution of the statement with one parameter list, on the visible rows
ExecUpsert(rows, sql, vals) ==
    LET new == [c \in Range(sql.col_list) |-> vals[Index(sql.col_list, c)]]
        hit == {x \in rows : x[sql.conflict] = new[sql.conflict]}
    IN  IF hit = {}
        THEN rows \cup {new}
        ELSE (rows \ hit) \cup
             {[c \in DOMAIN x |-> IF c \in Range(sql.updates) THEN new[c] ELSE x[c]] :
                 x \in hit}

\* cursor.executemany: the statement once per parameter list, in order
RECURSIVE ExecMany(_, _, _)
ExecMany(rows, sql, batch) ==
    IF batch = <<>> THEN rows
    ELSE ExecMany(ExecUpsert(rows, sql, Head(batch)), sql, Tail(batch))

---------------------------------------------------------------------------
(* The store: committed contents, and a transaction's uncommitted writes *)

EmptyWr == [schema |-> FALSE, audit |-> {}, tbl |-> [t \in TableSet |-> {}]]

ViewTbl(d, w, t) ==
    {x \in d.tbl[t] : ~ \E y \in w.tbl[t] : y[FILES[t].pk] = x[FILES[t].pk]}
        \cup w.tbl[t]

ViewAudit(d, w) ==
    {x \in d.audit : ~ \E y \in w.audit : y.batch_id = x.batch_id} \cup w.audit

\* faulty variant: a row committed meanwhile is kept, the transaction's is dropped
StoreCommit_keeps_committed(d, w) ==
    [schema |-> d.schema \/ w.schema,
     audit |-> ViewAudit(d, w),
     tbl |-> [t \in TableSet |->
                d.tbl[t] \cup
                {y \in w.tbl[t] : ~ \E x \in d.tbl[t] : x[FILES[t].pk] = y[FILES[t].pk]}]]

\* COMMIT: the transaction's writes become the committed contents
StoreCommit(d, w) ==
    [schema |-> d.schema \/ w.schema,
     audit |-> ViewAudit(d, w),
     tbl |-> [t \in TableSet |-> ViewTbl(d, w, t)]]

\* faulty variant: the statement does not see the transaction's earlier writes
WrAfterMany_forgets(d, w, sql, batch) ==
    [w EXCEPT !.tbl[sql.table] =
        ExecMany(d.tbl[sql.table], sql, batch) \ d.tbl[sql.table]]

\* the writes of a transaction after executemany(sql, batch) succeeded
WrAfterMany(d, w, sql, batch) ==
    [w EXCEPT !.tbl[sql.table] =
        ExecMany(ViewTbl(d, w, sql.table), sql, batch) \ d.tbl[sql.table]]

\* INSERT INTO public.load_audit ... 'running'
AuditInsert(d, w, id, started) ==
    [w EXCEPT !.audit = @ \cup
        {[batch_id |-> id, load_date |-> LOAD_DATE, started_at_utc |-> started,
          finished_at_utc |-> NullTs, status |-> "running", details |-> <<>>]}]

\* faulty variant: the terminal UPDATE has no WHERE clause
AuditUpdate_all_rows(d, w, id, finished, status, details) ==
    [w EXCEPT !.audit =
        {[x EXCEPT !.finished_at_utc = finished, !.status = status,
                   !.details = details] : x \in ViewAudit(d, w)}]

\* faulty variant: the terminal UPDATE leaves the status column alone
AuditUpdate_keeps_status(d, w, id, finished, status, details) ==
    [w EXCEPT !.audit =
        {x \in @ : x.batch_id # id} \cup
        {[x EXCEPT !.finished_at_utc = finished, !.details = details] :
            x \in {y \in ViewAudit(d, w) : y.batch_id = id}}]

\* UPDATE public.load_audit SET finished_at_utc, status, details WHERE batch_id
AuditUpdate(d, w, id, finished, status, details) ==
    [w EXCEPT !.audit =
        {x \in @ : x.batch_id # id} \cup
        {[x EXCEPT !.finished_at_utc = finished, !.status = status,
                   !.details = details] :
            x \in {y \in ViewAudit(d, w) : y.batch_id = id}}]

---------------------------------------------------------------------------
(* Input files: what csv.DictReader yields for each configured dataset *)

Keys == {"1", "2"}

Vals == {"a", "b"}

ColSet(t) == Range(FILES[t].cols)

\* a record with every declared column
Rec(t, k, v) == [c \in ColSet(t) |-> IF c = FILES[t].pk THEN k ELSE v]

\* the same record read from a file whose header lacks the last declared column
ShortRec(t, k, v) ==
    [c \in ColSet(t) \ {FILES[t].cols[Len(FILES[t].cols)]} |->
        IF c = FILES[t].pk THEN k ELSE v]

\* rows: the records in file order; garbledAt: the row at which reading the
\* file raises (csv.Error, UnicodeDecodeError), 0 when the file reads cleanly
File(rows, g) == [present |-> TRUE, rows |-> rows, garbledAt |-> g]

Missing == [present |-> FALSE, rows |-> <<>>, garbledAt |-> 0]

NoFiles == [t \in TableSet |-> Missing]

SeqsUpTo(S, n) == UNION {[1..m -> S] : m \in 0..n}

GoodRecs(t) == {Rec(t, k, v) : k \in Keys, v \in Vals}

\* a file of MaxRows records whose first full chunk is clean
Filler(t) == [i \in 1..(MaxRows - 1) |-> Rec(t, IF i % 2 = 1 THEN "1" ELSE "2", "a")]

\* the file of one valid record
Default(t) == File(<<Rec(t, "1", "a")>>, 0)

\* files that load: one record, and for the first dataset also MaxRows records
OkFiles(t) ==
    {Default(t)} \cup
    (IF t = TableOrder[1] THEN {File(Filler(t) \o <<Rec(t, "1", "b")>>, 0)} ELSE {})

\* files that stop the run: absent; a header without a declared column; a
\* last row that cannot be read; a last row with a value the store rejects
BadFiles(t) ==
    {Missing,
     File(<<ShortRec(t, "1", "a")>>, 0),
     File(Filler(t) \o <<Rec(t, "2", "b")>>, MaxRows),
     File(Filler(t) \o <<Rec(t, "2", Uncoercible)>>, 0)}

\* inputs of the orchestration scenarios: the default files, but for at most
\* one dataset whose file is any of the above
Inputs ==
    {in \in [TableSet -> UNION {OkFiles(t) \cup BadFiles(t) : t \in TableSet}] :
        /\ \A t \in TableSet : in[t] \in OkFiles(t) \cup BadFiles(t)
        /\ Cardinality({t \in TableSet : in[t] # Default(t)}) <= 1}

\* inputs of the data scenarios: every sequence of customer records, and one
\* customers file that stops the run; the default files for the rest
LoadInputs ==
    {[t \in TableSet |-> IF t = TableOrder[1] THEN f ELSE Default(t)] :
     f \in {File(rows, 0) : rows \in SeqsUpTo(GoodRecs(TableOrder[1]), MaxRows)}
            \cup {File(<<ShortRec(TableOrder[1], "1", "a")>>, 0)}}

\* inputs of the concurrent scenarios: the customer files in which no key
\* occurs twice, key "1" comes before key "2" and every record carries the
\* same value, and one customers file whose record the store rejects
BesideInputs ==
    {in \in LoadInputs :
        \A i, j \in DOMAIN in[TableOrder[1]].rows :
            /\ in[TableOrder[1]].rows[i]["id"] = in[TableOrder[1]].rows[j]["id"] => i = j
            /\ i < j => in[TableOrder[1]].rows[i]["id"] = "1"
            /\ in[TableOrder[1]].rows[i]["name"] = in[TableOrder[1]].rows[j]["name"]}
    \cup {[t \in TableSet |->
            IF t = TableOrder[1] THEN File(<<Rec(t, "1", Uncoercible)>>, 0)
            ELSE Default(t)]}

---------------------------------------------------------------------------
(* main(): locals, connection and position of one invocation *)

Err(type, at) == [type |-> type, at |-> at]

NoErr == Err("none", "none")

IdleRun ==
    [pc |-> "idle", batch_id |-> 0, started |-> NullTs, files |-> NoFiles,
     conn |-> "none", txs |-> "idle", wr |-> EmptyWr,
     \* si: the statement of DDL to execute next, 0 outside the loop;
     \* waits: that statement was sent and waits for another transaction;
     \* locks: the tables this transaction holds an ACCESS EXCLUSIVE lock on
     si |-> 0, waits |-> FALSE, locks |-> {},
     ti |-> 0, ri |-> 0, batch |-> <<>>, submitted |-> 0, details |-> <<>>,
     caught |-> NoErr, raised |-> NoErr, outcome |-> "none",
     \* history: timestamps attached to rows, audit statements executed,
     \* the committed tables when the run ended, the executemany calls made
     stamps |-> {}, aud |-> <<>>, after |-> [t \in TableSet |-> {}], log |-> <<>>]

EmptyDb == [schema |-> FALSE, audit |-> {}, tbl |-> [t \in TableSet |-> {}]]

\* the S3 upload stage before it is invoked
IdleUp ==
    [pc |-> "idle", datasets |-> <<>>, present |-> {}, enable_versioning |-> FALSE,
     max_retries |-> 0, files |-> <<>>, di |-> 0, attempt |-> 0,
     status |-> "none", objects |-> {}, outcome |-> "none", raised |-> "none",
     \* history: the calls made on the S3 client, the seconds slept
     calls |-> <<>>, sleeps |-> <<>>]

Init ==
    /\ db = EmptyDb
    /\ run = [r \in Runs |-> IdleRun]
    /\ now = 1
    /\ issued = 0
    /\ budget = MaxFaults
    /\ chunk = ChunkSize
    /\ commits = <<>>
    /\ up = IdleUp

\* chunk sizes from one record up to more than the largest file
ChunkSizes == 1..(MaxRows + 1)

InitChunk ==
    /\ db = EmptyDb
    /\ run = [r \in Runs |-> IdleRun]
    /\ now = 1
    /\ issued = 0
    /\ budget = 0
    /\ chunk \in ChunkSizes
    /\ commits = <<>>
    /\ up = IdleUp

InitQuiet ==
    /\ db = EmptyDb
    /\ run = [r \in Runs |-> IdleRun]
    /\ now = 1
    /\ issued = 0
    /\ budget = 0
    /\ chunk = ChunkSize
    /\ commits = <<>>
    /\ up = IdleUp

\* the database an earlier invocation left behind: batch 1, started at 1 over
\* an empty customers file and the one-record files of the other datasets,
\* committed its audit table, its rows and its `succeeded` row
SeededDb ==
    LET stamp(t) == Index(TableOrder, t) - 1
        row(t) == [c \in ColSet(t) \cup {"_ingested_at"} |->
                     IF c = "_ingested_at" THEN stamp(t) + 1
                     ELSE Default(t).rows[1][c]]
    IN  [schema |-> TRUE,
         audit |-> {[batch_id |-> 1, load_date |-> LOAD_DATE, started_at_utc |-> 1,
                     finished_at_utc |-> Len(TableOrder) + 1, status |-> "succeeded",
                     details |-> [t \in TableSet |->
                        [rows_submitted |-> IF t = TableOrder[1] THEN 0 ELSE 1]]]},
         tbl |-> [t \in TableSet |-> IF t = TableOrder[1] THEN {} ELSE {row(t)}]]

\* a fresh database, or the one an earlier invocation left behind, with the
\* clock and the identifiers issued where that invocation left them
InitBeside ==
    /\ \/ db = EmptyDb /\ now = 1 /\ issued = 0
       \/ db = SeededDb /\ now = Len(TableOrder) + 2 /\ issued = 1
    /\ run = [r \in Runs |-> IdleRun]
    /\ budget = 0
    /\ chunk = ChunkSize
    /\ commits = <<>>
    /\ up = IdleUp

\* uuid.uuid4(): an identifier never issued before
uuid4 == issued + 1

\* how a statement or a COMMIT sent on the connection can end: it succeeds, the
\* connection is lost while it runs (nothing of it takes effect), or the
\* connection was lost before
ExecOutcomes(rr) ==
    IF rr.conn = "broken" THEN {"down"}
    ELSE {"ok"} \cup (IF budget > 0 THEN {"lost"} ELSE {})

\* an environment fault uses up one unit of the budget
Spend(o) == IF o \in {"lost", "epipe"} THEN budget - 1 ELSE budget

\* the connection is gone: the server discards the open transaction
Broken(rr) ==
    [rr EXCEPT !.conn = "broken", !.wr = EmptyWr, !.txs = "idle",
               !.locks = {}, !.waits = FALSE]

\* an exception leaves `with psycopg.connect(...)`: rollback, close, propagate
Propagate(rr, e, d) ==
    [rr EXCEPT !.pc = "done", !.raised = e, !.outcome = "raised",
               !.wr = EmptyWr, !.txs = "idle", !.locks = {}, !.waits = FALSE,
               !.conn = IF @ = "none" THEN "none" ELSE "closed", !.after = d.tbl]

\* an exception inside the try block: control reaches `except Exception as e`
Catch(rr, e) == [rr EXCEPT !.pc = "handler", !.caught = e]

\* faulty variant: only the first configured dataset is looked for
MissingSource_first_only(in) == ~ in[TableOrder[1]].present

\* lines 92-95: some configured dataset has no file
MissingSource(in) == \E i \in 1..Len(TableOrder) : ~ in[TableOrder[i]].present

\* lines 88-97: identifier, start time, the file check, the connection
Launch(r, in) ==
    /\ run[r].pc = "idle"
    /\ \E o \in {"ok"} \cup (IF budget > 0 THEN {"lost"} ELSE {}) :
        LET rr == [run[r] EXCEPT !.batch_id = uuid4, !.started = now, !.files = in]
            absent == MissingSource(in)
        IN  /\ run' = [run EXCEPT ![r] =
                 IF absent THEN Propagate(rr, Err("FileNotFoundError", "files"), db)
                 ELSE IF o = "lost"
                      THEN Propagate(rr, Err("OperationalError", "connect"), db)
                      ELSE [rr EXCEPT !.pc = "ddl", !.conn = "open", !.si = 1]]
            /\ budget' = IF absent THEN budget ELSE Spend(o)
    /\ now' = now + 1
    /\ issued' = issued + 1
    /\ UNCHANGED <<db, chunk, commits, up>>

\* main() invoked once the invocation before it has ended
StartRun(r, in) ==
    /\ IF r = 1 THEN TRUE ELSE run[r - 1].pc = "done"
    /\ Launch(r, in)

\* main() invoked while the invocation before it may still be running, two
\* invocations at most running at once
StartBeside(r, in) ==
    /\ IF r = 1 THEN TRUE ELSE run[r - 1].pc # "idle"
    /\ IF r <= 2 THEN TRUE ELSE run[r - 2].pc = "done"
    /\ Launch(r, in)

\* ALTER TABLE takes an ACCESS EXCLUSIVE lock on its table and the transaction
\* holds it until it ends: the same statement of another transaction waits
LockedByOther(r, t) == \E q \in Runs \ {r} : t \in run[q].locks

\* another open transaction has created public.load_audit and not yet ended
CreatingElsewhere(r) == \E q \in Runs \ {r} : run[q].wr.schema

\* how the next statement of DDL can end for run r. CREATE TABLE IF NOT EXISTS
\* returns at once when the table is committed; when another open transaction
\* has created it the statement waits, and it raises a unique violation of the
\* catalog if that transaction commits, creates the table if it rolls back.
\* ALTER TABLE goes on only when no other transaction holds the table's lock.
DdlOutcomes(r) ==
    LET rr == run[r]
        stmt == DDL[rr.si]
        fault == IF budget > 0 THEN {"lost"} ELSE {}
    IN  IF rr.conn = "broken" THEN {"down"}
        ELSE IF stmt.op = "create"
        THEN IF rr.waits
             THEN IF db.schema THEN {"duplicate"}
                  ELSE IF CreatingElsewhere(r) THEN fault
                  ELSE {"ok"} \cup fault
             ELSE IF db.schema THEN {"ok"} \cup fault
                  ELSE IF CreatingElsewhere(r) THEN {"wait"} \cup fault
                  ELSE {"ok"} \cup fault
        ELSE IF LockedByOther(r, stmt.table) THEN fault
             ELSE {"ok"} \cup fault

\* lines 100-101: one iteration of `for stmt in DDL: cur.execute(stmt)`
EnsureSchema(r) ==
    /\ run[r].pc = "ddl"
    /\ \E o \in DdlOutcomes(r) :
        LET stmt == DDL[run[r].si]
            last == run[r].si = Len(DDL)
            next == [run[r] EXCEPT !.txs = "active", !.waits = FALSE,
                                   !.si = IF last THEN 0 ELSE @ + 1,
                                   !.pc = IF last THEN "begin" ELSE "ddl"]
        IN  /\ run' = [run EXCEPT ![r] =
                 CASE o = "ok" ->
                        IF stmt.op = "create"
                        THEN [next EXCEPT !.wr.schema = ~ db.schema]
                        ELSE [next EXCEPT !.locks = @ \cup {stmt.table}]
                   [] o = "wait" ->
                        [@ EXCEPT !.txs = "active", !.waits = TRUE]
                   [] o = "duplicate" ->
                        Propagate([@ EXCEPT !.si = 0], Err("UniqueViolation", "ddl"), db)
                   [] o \in {"lost", "down"} ->
                        Propagate(Broken([@ EXCEPT !.si = 0]),
                                  Err("OperationalError", "ddl"), db)]
            /\ budget' = Spend(o)
    /\ UNCHANGED <<db, now, issued, chunk, commits, up>>

\* lines 104-112: the `running` audit row
BeginAudit(r) ==
    /\ run[r].pc = "begin"
    /\ \E o \in ExecOutcomes(run[r]) :
        /\ run' = [run EXCEPT ![r] =
             IF o = "ok"
             THEN [@ EXCEPT !.pc = "load",
                            !.wr = AuditInsert(db, @, run[r].batch_id, run[r].started),
                            !.aud = Append(@, "begin"),
                            !.ti = 1, !.ri = 1, !.batch = <<>>, !.submitted = 0,
                            !.details = <<>>]
             ELSE Propagate(Broken(@), Err("OperationalError", "begin"), db)]
        /\ budget' = Spend(o)
    /\ UNCHANGED <<db, now, issued, chunk, commits, up>>

\* faulty variant: the rows of a flushed chunk are not counted
Submit_uncounted(rr, d, sql, batch, o) ==
    LET sent == [rr EXCEPT !.log = Append(@, [table |-> sql.table, batch |-> batch])]
    IN  IF o # "ok" THEN Catch(Broken(sent), Err("OperationalError", "load"))
        ELSE IF \E i \in 1..Len(batch) : Rejected(batch[i])
        THEN Catch([sent EXCEPT !.txs = "aborted"], Err("DataError", "load"))
        ELSE [sent EXCEPT !.wr = WrAfterMany(d, rr.wr, sql, batch),
                          !.batch = <<>>]

\* faulty variant: the batch is not cleared after it was sent
Submit_keeps_batch(rr, d, sql, batch, o) ==
    LET sent == [rr EXCEPT !.log = Append(@, [table |-> sql.table, batch |-> batch])]
    IN  IF o # "ok" THEN Catch(Broken(sent), Err("OperationalError", "load"))
        ELSE IF \E i \in 1..Len(batch) : Rejected(batch[i])
        THEN Catch([sent EXCEPT !.txs = "aborted"], Err("DataError", "load"))
        ELSE [sent EXCEPT !.wr = WrAfterMany(d, rr.wr, sql, batch),
                          !.submitted = @ + Len(batch)]

\* lines 78-80, 82-83: cur.executemany(sql, batch); submitted += len(batch)
Submit(rr, d, sql, batch, o) ==
    LET sent == [rr EXCEPT !.log = Append(@, [table |-> sql.table, batch |-> batch])]
    IN  IF o # "ok" THEN Catch(Broken(sent), Err("OperationalError", "load"))
        ELSE IF \E i \in 1..Len(batch) : Rejected(batch[i])
        THEN Catch([sent EXCEPT !.txs = "aborted"], Err("DataError", "load"))
        ELSE [sent EXCEPT !.wr = WrAfterMany(d, rr.wr, sql, batch),
                          !.submitted = @ + Len(batch),
                          !.batch = <<>>]

\* lines 74-80: one iteration of `for row in reader`
ReadRow(r) ==
    /\ run[r].pc = "load"
    /\ LET rr == run[r]
           t == TableOrder[rr.ti]
           f == rr.files[t]
           cols == FILES[t].cols
           sql == upsert_sql(t, cols, FILES[t].pk)
       IN  /\ rr.ri <= Len(f.rows)
           /\ \E o \in ExecOutcomes(rr) :
               LET row == f.rows[rr.ri]
                   garbled == f.garbledAt = rr.ri
                   keyerr == \E c \in Range(cols) : c \notin DOMAIN row
                   vals == [i \in 1..(Len(cols) + 1) |->
                              IF i <= Len(cols) THEN row[cols[i]] ELSE now]
                   read == [rr EXCEPT !.ri = @ + 1, !.batch = Append(@, vals),
                                      !.stamps = @ \cup {now}]
                   flush == ~ garbled /\ ~ keyerr /\ Len(read.batch) >= chunk
               IN  /\ run' = [run EXCEPT ![r] =
                        IF garbled THEN Catch(rr, Err("csv.Error", "load"))
                        ELSE IF keyerr THEN Catch(rr, Err("KeyError", "load"))
                        ELSE IF flush THEN Submit(read, db, sql, read.batch, o)
                        ELSE read]
                   /\ now' = IF garbled \/ keyerr THEN now ELSE now + 1
                   /\ budget' = IF flush THEN Spend(o) ELSE budget
    /\ UNCHANGED <<db, issued, chunk, commits, up>>

\* lines 81-85 and 116-117: the final partial chunk, the statistics, the next dataset
EndOfFile(r) ==
    /\ run[r].pc = "load"
    /\ LET rr == run[r]
           t == TableOrder[rr.ti]
           sql == upsert_sql(t, FILES[t].cols, FILES[t].pk)
       IN  /\ rr.ri > Len(rr.files[t].rows)
           /\ \E o \in ExecOutcomes(rr) :
               LET flush == rr.batch # <<>>
                   r1 == IF flush THEN Submit(rr, db, sql, rr.batch, o) ELSE rr
                   det == (t :> [rows_submitted |-> r1.submitted]) @@ r1.details
               IN  /\ run' = [run EXCEPT ![r] =
                        IF r1.pc = "handler" THEN r1
                        ELSE IF rr.ti < Len(TableOrder)
                             THEN [r1 EXCEPT !.ti = @ + 1, !.ri = 1, !.batch = <<>>,
                                             !.submitted = 0, !.details = det]
                             ELSE [r1 EXCEPT !.pc = "succeed", !.details = det]]
                   /\ budget' = IF flush THEN Spend(o) ELSE budget
    /\ UNCHANGED <<db, now, issued, chunk, commits, up>>

\* lines 119-123: the `succeeded` UPDATE
MarkSucceeded(r) ==
    /\ run[r].pc = "succeed"
    /\ \E o \in ExecOutcomes(run[r]) :
        /\ run' = [run EXCEPT ![r] =
             IF o = "ok"
             THEN [@ EXCEPT !.pc = "commit",
                            !.wr = AuditUpdate(db, @, run[r].batch_id, now, "succeeded",
                                               run[r].details),
                            !.aud = Append(@, "succeeded")]
             ELSE Catch(Broken(@), Err("OperationalError", "finish"))]
        /\ budget' = Spend(o)
    /\ now' = now + 1
    /\ UNCHANGED <<db, issued, chunk, commits, up>>

\* line 124: conn.commit() of the success path
Commit(r) ==
    /\ run[r].pc = "commit"
    /\ \E o \in ExecOutcomes(run[r]) :
        /\ db' = IF o = "ok" THEN StoreCommit(db, run[r].wr) ELSE db
        /\ run' = [run EXCEPT ![r] =
             IF o = "ok"
             THEN [@ EXCEPT !.pc = "print", !.wr = EmptyWr, !.txs = "idle", !.locks = {}]
             ELSE Catch(Broken(@), Err("OperationalError", "commit"))]
        /\ commits' = IF o = "ok" THEN Append(commits, r) ELSE commits
        /\ budget' = Spend(o)
    /\ UNCHANGED <<now, issued, chunk, up>>

\* line 125 and the normal exit of the `with` blocks
Report(r) ==
    /\ run[r].pc = "print"
    /\ \E o \in {"ok"} \cup (IF budget > 0 THEN {"epipe"} ELSE {}) :
        /\ run' = [run EXCEPT ![r] =
             IF o = "ok"
             THEN [@ EXCEPT !.pc = "done", !.outcome = "returned", !.conn = "closed",
                            !.after = db.tbl]
             ELSE Catch(@, Err("OSError", "print"))]
        /\ budget' = Spend(o)
    /\ UNCHANGED <<db, now, issued, chunk, commits, up>>

\* how the UPDATE of the except block can end
HandlerOutcomes(rr) ==
    IF rr.conn = "broken" THEN {"down"}
    ELSE (IF rr.txs = "aborted" THEN {"aborted"} ELSE {"ok"})
            \cup (IF budget > 0 THEN {"lost"} ELSE {})

\* lines 126-131: except Exception as e: the `failed` UPDATE
Handler(r) ==
    /\ run[r].pc = "handler"
    /\ \E o \in HandlerOutcomes(run[r]) :
        /\ run' = [run EXCEPT ![r] =
             CASE o = "ok" ->
                    [@ EXCEPT !.pc = "hcommit", !.txs = "active",
                              !.wr = AuditUpdate(db, @, run[r].batch_id, now, "failed",
                                                 "error" :> run[r].caught.type),
                              !.aud = Append(@, "failed")]
               [] o = "aborted" ->
                    Propagate(@, Err("InFailedSqlTransaction", "handler"), db)
               [] o = "down" ->
                    Propagate(@, Err("OperationalError", "handler"), db)
               [] o = "lost" ->
                    Propagate(Broken(@), Err("OperationalError", "handler"), db)]
        /\ budget' = Spend(o)
    /\ now' = now + 1
    /\ UNCHANGED <<db, issued, chunk, commits, up>>

\* lines 132-133: conn.commit(); raise
HandlerCommit(r) ==
    /\ run[r].pc = "hcommit"
    /\ \E o \in ExecOutcomes(run[r]) :
        /\ db' = IF o = "ok" THEN StoreCommit(db, run[r].wr) ELSE db
        /\ run' = [run EXCEPT ![r] =
             IF o = "ok"
             THEN Propagate(@, run[r].caught, db')
             ELSE Propagate(Broken(@), Err("OperationalError", "handler_commit"), db')]
        /\ commits' = IF o = "ok" THEN Append(commits, r) ELSE commits
        /\ budget' = Spend(o)
    /\ UNCHANGED <<now, issued, chunk, up>>

Done(r) == run[r].pc = "done"

\* the parameter lists the executemany calls of a log carried for table t
RECURSIVE Flat(_, _)
Flat(log, t) ==
    IF log = <<>> THEN <<>>
    ELSE (IF Head(log).table = t THEN Head(log).batch ELSE <<>>) \o Flat(Tail(log), t)

\* the record a parameter list was built from, the timestamp aside
RecOf(t, vals) == [c \in ColSet(t) |-> vals[Index(FILES[t].cols, c)]]

\* the records of table t run r passed to executemany, in order
SentRecs(r, t) ==
    LET f == Flat(run[r].log, t) IN [i \in DOMAIN f |-> RecOf(t, f[i])]

\* the records of table t runs 1..r passed to executemany, oldest first
RECURSIVE Submitted(_, _)
Submitted(t, r) ==
    IF r = 0 THEN <<>> ELSE Submitted(t, r - 1) \o SentRecs(r, t)

Step(r) ==
    \/ EnsureSchema(r)
    \/ BeginAudit(r)
    \/ ReadRow(r)
    \/ EndOfFile(r)
    \/ MarkSucceeded(r)
    \/ Commit(r)
    \/ Report(r)
    \/ Handler(r)
    \/ HandlerCommit(r)

Next ==
    \E r \in Runs :
        \/ \E in \in Inputs : StartRun(r, in)
        \/ Step(r)

NextLoad ==
    \E r \in Runs :
        \/ \E in \in LoadInputs :
              /\ run[r].pc = "idle"
              /\ IF r = 1 THEN TRUE ELSE run[r - 1].pc = "done"
              /\ Len(Submitted(TableOrder[1], MaxRuns)) + Len(in[TableOrder[1]].rows)
                    <= MaxRecords
              /\ StartRun(r, in)
        \/ Step(r)

NextReload ==
    \E r \in Runs :
        \/ \E in \in LoadInputs :
              /\ run[r].pc = "idle"
              /\ IF r = 1 THEN TRUE ELSE in = run[r - 1].files
              /\ StartRun(r, in)
        \/ Step(r)

NextBeside ==
    \E r \in Runs :
        \/ \E in \in BesideInputs : StartBeside(r, in)
        \/ Step(r)

\* runs with environment faults, over Inputs
Spec == Init /\ [][Next]_vars

\* runs without environment faults, over the sequences of customer records
\* that together submit at most MaxRecords records
SpecLoad == InitQuiet /\ [][NextLoad]_vars

\* runs without environment faults, each run after the first loading the
\* files of the run before it again
SpecReload == InitQuiet /\ [][NextReload]_vars

\* the inputs of Spec without environment faults
SpecQuiet == InitQuiet /\ [][Next]_vars

\* runs without environment faults that may overlap in time
SpecBeside == InitBeside /\ [][NextBeside]_vars

\* the reloading runs, for every chunk size
SpecChunk == InitChunk /\ [][NextReload]_vars

---------------------------------------------------------------------------
(* The S3 upload stage: src/src/cloud/s3_handler.py *)

DEFAULT_DATASETS == <<"customers", "products", "transactions">>

DEFAULT_PREFIX == "raw"

\* the default of backoff_upload's max_retries
DefaultMaxRetries == 5

\* the cap of the sleep between two attempts, in seconds
MaxSleep == 30

\* the partition date of the invocation
PartitionDate == [y |-> "2025", m |-> "01", d |-> "15"]

\* s3://<bucket>/<prefix>/year=YYYY/month=MM/day=DD/<dataset>/<file>.csv
build_key(prefix, when, dataset, filename) ==
    <<prefix, "year=" \o when.y, "month=" \o when.m, "day=" \o when.d,
      dataset, filename>>

\* line 122: the key of a dataset's file
KeyOf(ds) == build_key(DEFAULT_PREFIX, PartitionDate, ds, ds \o ".csv")

\* line 91: sleep = min(2 ** attempt, 30)
BackoffSleep(attempt) == IF 2 ^ attempt < MaxSleep THEN 2 ^ attempt ELSE MaxSleep

\* faulty variant: only the first requested dataset is looked for
MissingLocal_first_only(present, datasets) == datasets[1] \notin present

\* lines 101-104: some requested dataset has no local file
MissingLocal(present, datasets) ==
    \E i \in DOMAIN datasets : datasets[i] \notin present

\* line 105: files[ds] = candidate, a dict: each name once, in the order of
\* its first occurrence
find_local_files(datasets) ==
    SelectSeq([i \in DOMAIN datasets |->
                  IF \E j \in 1..(i - 1) : datasets[j] = datasets[i]
                  THEN "" ELSE datasets[i]],
              LAMBDA ds : ds # "")

\* the command lines and environments of the scenarios
UpInputs ==
    [datasets : UNION {[1..n -> Range(DEFAULT_DATASETS)] : n \in 1..MaxDatasets},
     present : SUBSET Range(DEFAULT_DATASETS),
     enable_versioning : BOOLEAN,
     status : {"Enabled", "Suspended"}]

\* an exception leaves main()
UpRaise(u, e) == [u EXCEPT !.pc = "done", !.outcome = "raised", !.raised = e]

\* lines 109-116: arguments, find_local_files, the client
S3Main(in) ==
    /\ up.pc = "idle"
    /\ LET u == [up EXCEPT !.datasets = in.datasets, !.present = in.present,
                           !.enable_versioning = in.enable_versioning,
                           !.status = in.status, !.max_retries = DefaultMaxRetries]
       IN  up' = IF MissingLocal(in.present, in.datasets)
                 THEN UpRaise(u, "FileNotFoundError")
                 ELSE [u EXCEPT !.files = find_local_files(in.datasets),
                                !.pc = IF in.enable_versioning THEN "versioning"
                                                               ELSE "upload",
                                !.di = 1, !.attempt = 0]
    /\ UNCHANGED <<db, run, now, issued, budget, chunk, commits>>

\* lines 118-119 and 65-71: ensure_versioning; its print may raise as any
\* write to a closed or full stdout does, an environment fault
EnsureVersioning ==
    /\ up.pc = "versioning"
    /\ \E o \in {"ok", "get_fails"}
                 \cup (IF budget > 0 THEN {"print_fails"} ELSE {})
                 \cup (IF up.status # "Enabled" THEN {"put_fails"} ELSE {}) :
        LET made == IF up.status # "Enabled"
                    THEN <<[op |-> "get_bucket_versioning"],
                           [op |-> "put_bucket_versioning"]>>
                    ELSE <<[op |-> "get_bucket_versioning"]>>
        IN  /\ up' = CASE o = "get_fails" ->
                         UpRaise([up EXCEPT !.calls = Append(@, [op |-> "get_bucket_versioning"])],
                                 "ClientError")
                    [] o = "put_fails" ->
                         UpRaise([up EXCEPT !.calls = @ \o made], "ClientError")
                    [] o = "print_fails" ->
                         UpRaise([up EXCEPT !.status = "Enabled", !.calls = @ \o made],
                                 "OSError")
                    [] o = "ok" ->
                         [up EXCEPT !.pc = "upload", !.status = "Enabled",
                                    !.calls = @ \o made]
            /\ budget' = IF o = "print_fails" THEN budget - 1 ELSE budget
    /\ UNCHANGED <<db, run, now, issued, chunk, commits>>

\* the prints of one iteration that raised: line 85 to stdout, line 89 or 92
\* to stderr
PrintFaults(o) ==
    (IF o.stored /\ ~ o.shown THEN 1 ELSE 0) + (IF o.logged THEN 0 ELSE 1)

\* what one iteration of the loop of backoff_upload can meet: upload_file
\* returns (stored) or raises, the print of line 85 to stdout raises or not,
\* the print of line 89 or 92 to stderr raises or not; a print that is not
\* reached has no outcome, one that raises is an environment fault
UploadOutcomes ==
    {o \in [stored : BOOLEAN, shown : BOOLEAN, logged : BOOLEAN] :
        /\ ~ o.stored => o.shown
        /\ (o.stored /\ o.shown) => o.logged
        /\ PrintFaults(o) <= budget}

\* lines 75-93: one iteration of the loop of backoff_upload, and on its
\* return lines 121-123: the next dataset. The print of line 85 is inside the
\* try: when it raises, the except branch runs as for a failed upload.
UploadAttempt ==
    /\ up.pc = "upload"
    /\ \E o \in UploadOutcomes :
        LET ds == up.files[up.di]
            u == [up EXCEPT !.attempt = @ + 1,
                            !.objects = IF o.stored THEN @ \cup {KeyOf(ds)} ELSE @,
                            !.calls = Append(@, [op |-> "upload_file", key |-> KeyOf(ds),
                                                 result |-> IF o.stored THEN "ok"
                                                                        ELSE "fail"])]
            e == IF o.stored THEN "OSError" ELSE "UploadError"
        IN  /\ up' = IF o.stored /\ o.shown
                      THEN IF up.di < Len(up.files)
                           THEN [u EXCEPT !.di = @ + 1, !.attempt = 0, !.sleeps = <<>>]
                           ELSE [u EXCEPT !.pc = "manifest"]
                      ELSE IF u.attempt >= up.max_retries
                           THEN UpRaise(u, IF o.logged THEN e ELSE "OSError")
                           ELSE IF o.logged
                                THEN [u EXCEPT !.sleeps = Append(@, BackoffSleep(u.attempt))]
                                ELSE UpRaise(u, "OSError")
            /\ budget' = budget - PrintFaults(o)
    /\ UNCHANGED <<db, run, now, issued, chunk, commits>>

\* lines 125-128: the manifest is printed, main() returns
Manifest ==
    /\ up.pc = "manifest"
    /\ \E o \in {"ok"} \cup (IF budget > 0 THEN {"print_fails"} ELSE {}) :
        /\ up' = IF o = "ok"
                  THEN [up EXCEPT !.pc = "done", !.outcome = "returned"]
                  ELSE UpRaise(up, "OSError")
        /\ budget' = IF o = "print_fails" THEN budget - 1 ELSE budget
    /\ UNCHANGED <<db, run, now, issued, chunk, commits>>

\* s3_handler.main() before it is invoked, its prints raising at most
\* MaxPrintFaults times
InitUpload ==
    /\ db = EmptyDb
    /\ run = [r \in Runs |-> IdleRun]
    /\ now = 1
    /\ issued = 0
    /\ budget = MaxPrintFaults
    /\ chunk = ChunkSize
    /\ commits = <<>>
    /\ up = IdleUp

\* backoff_upload called on one file with any max_retries
InitBackoff ==
    /\ db = EmptyDb
    /\ run = [r \in Runs |-> IdleRun]
    /\ now = 1
    /\ issued = 0
    /\ budget = MaxRetries
    /\ chunk = ChunkSize
    /\ commits = <<>>
    /\ \E ds \in Range(DEFAULT_DATASETS), m \in 1..MaxRetries :
          up = [IdleUp EXCEPT !.pc = "upload", !.datasets = <<ds>>, !.present = {ds},
                              !.files = <<ds>>, !.di = 1, !.max_retries = m]

NextUpload ==
    \/ \E in \in UpInputs : S3Main(in)
    \/ EnsureVersioning
    \/ UploadAttempt
    \/ Manifest

NextBackoff ==
    \/ UploadAttempt
    \/ Manifest

\* one invocation of s3_handler.main(), with environment faults
SpecUpload == InitUpload /\ [][NextUpload]_vars

\* one call of backoff_upload
SpecBackoff == InitBackoff /\ [][NextBackoff]_vars

---------------------------------------------------------------------------
(* What the properties speak of *)

Returned(r) == run[r].outcome = "returned"

\* the committed audit rows of run r
AuditOf(r) == {x \in db.audit : x.batch_id = run[r].batch_id}

\* the committed rows of table t that run r wrote
RowsOf(r, t) == {x \in db.tbl[t] : x["_ingested_at"] \in run[r].stamps}

\* run r wrote its `running` row and then a dataset load raised
LoadFailed(r) ==
    /\ Done(r)
    /\ run[r].caught.at = "load"
    /\ \E i \in DOMAIN run[r].aud : run[r].aud[i] = "begin"

PkUnique(t, rows) ==
    \A x, y \in rows : x[FILES[t].pk] = y[FILES[t].pk] => x = y

KeysIn(t, s) == {s[i][FILES[t].pk] : i \in DOMAIN s}

\* the most recently submitted record with key k
LastRec(t, s, k) ==
    s[CHOOSE i \in DOMAIN s :
        /\ s[i][FILES[t].pk] = k
        /\ \A j \in DOMAIN s : s[j][FILES[t].pk] = k => j <= i]

---------------------------------------------------------------------------
(* C1: after a run in which a dataset load failed once the `running` row    *)
(* was written, no row written by that run is committed in any table.      *)
C1_NoDataOfFailedRun ==
    \A r \in Runs : LoadFailed(r) => \A t \in TableSet : RowsOf(r, t) = {}

(* C2: after a run in which a dataset load raised, the committed ledger    *)
(* holds exactly one row for the run, `failed`, with a finish time and the *)
(* error description, whether the store or the loader raised.              *)
C2_FailedRowRecorded ==
    \A r \in Runs :
        LoadFailed(r) =>
            /\ Cardinality(AuditOf(r)) = 1
            /\ \A x \in AuditOf(r) :
                /\ x.status = "failed"
                /\ x.finished_at_utc # NullTs
                /\ x.details = ("error" :> run[r].caught.type)

(* C3: a run that returned normally has exactly one committed audit row,   *)
(* `succeeded`, finished at or after its start, with one details entry per *)
(* configured dataset whose rows_submitted is the number of input records; *)
(* runs that returned normally have pairwise distinct batch identifiers.   *)
C3_SucceededRow ==
    \A r \in Runs :
        Returned(r) =>
            /\ Cardinality(AuditOf(r)) = 1
            /\ \A x \in AuditOf(r) :
                /\ x.status = "succeeded"
                /\ x.started_at_utc = run[r].started
                /\ x.finished_at_utc # NullTs
                /\ x.finished_at_utc >= x.started_at_utc
                /\ DOMAIN x.details = TableSet
                /\ \A t \in TableSet :
                    x.details[t] = [rows_submitted |-> Len(run[r].files[t].rows)]
            /\ \A q \in Runs \ {r} : Returned(q) => run[q].batch_id # run[r].batch_id

C3_Witness ==
    /\ \A r \in Runs : Returned(r)
    /\ \E t \in TableSet : Len(run[1].files[t].rows) = MaxRows
    /\ \E t \in TableSet : Len(run[1].files[t].rows) = 1

(* C4: two successive runs that returned normally on identical inputs      *)
(* leave one row per primary key, with the non-key values of the first     *)
(* load and an _ingested_at not earlier than the second run's start.       *)
C4_IdempotentReload ==
    \A r \in Runs \ {1} :
        (Returned(r - 1) /\ Returned(r) /\ run[r].files = run[r - 1].files) =>
            \A t \in TableSet :
                /\ PkUnique(t, run[r].after[t])
                /\ \A k \in KeysIn(t, run[r].files[t].rows) :
                    /\ \E x \in run[r].after[t] : x[FILES[t].pk] = k
                    /\ \A x \in run[r].after[t] :
                        x[FILES[t].pk] = k =>
                            /\ x["_ingested_at"] >= run[r].started
                            /\ \E y \in run[r - 1].after[t] :
                                \A c \in ColSet(t) : y[c] = x[c]

C4_Witness ==
    /\ Returned(1) /\ Returned(2)
    /\ run[2].files = run[1].files
    /\ LET rows == run[1].files["public.customers"].rows
       IN  /\ Len(rows) = MaxRows
           /\ rows[1]["id"] = rows[MaxRows]["id"]
           /\ rows[1]["name"] # rows[MaxRows]["name"]

(* C5: when every run so far returned normally, each table has at most one *)
(* row per primary key and the row of every key ever submitted holds the   *)
(* values of the most recently submitted record with that key.             *)
C5_LastWriterWins ==
    ((\A r \in Runs : run[r].pc = "idle" \/ Returned(r)) =>
        \A t \in TableSet :
            LET s == Submitted(t, MaxRuns)
            IN  /\ PkUnique(t, db.tbl[t])
                /\ \A k \in KeysIn(t, s) :
                    /\ \E x \in db.tbl[t] : x[FILES[t].pk] = k
                    /\ \A x \in db.tbl[t] :
                        x[FILES[t].pk] = k =>
                            \A c \in ColSet(t) : x[c] = LastRec(t, s, k)[c]
                /\ \A x \in db.tbl[t] : x[FILES[t].pk] \in KeysIn(t, s))

C5_Witness ==
    /\ Returned(1) /\ Returned(2)
    /\ LET one == run[1].files["public.customers"].rows
           two == run[2].files["public.customers"].rows
       IN  /\ Len(one) = MaxRows /\ Len(two) = 1
           /\ one[1]["id"] = "1" /\ one[2]["id"] = "1" /\ one[1]["name"] # one[2]["name"]
           /\ one[MaxRows]["id"] = "2"
           /\ two[1]["id"] = "1"
           /\ LastRec("public.customers", one, "1")["name"]
                # LastRec("public.customers", two, "1")["name"]
           /\ "2" \in KeysIn("public.customers", one)
           /\ "2" \notin KeysIn("public.customers", two)

(* C6: a run started while the file of some configured dataset is absent   *)
(* raises the precondition error without ever opening a connection: it     *)
(* writes no audit row and no table row, also when the other files exist.  *)
C6_MissingSourceFailsFast ==
    \A r \in Runs :
        (run[r].pc # "idle" /\ \E t \in TableSet : ~ run[r].files[t].present) =>
            /\ Done(r)
            /\ run[r].raised = Err("FileNotFoundError", "files")
            /\ run[r].conn = "none"
            /\ run[r].aud = <<>>
            /\ AuditOf(r) = {}
            /\ \A t \in TableSet : RowsOf(r, t) = {}

C6_Witness ==
    \E r \in Runs :
        /\ Done(r)
        /\ run[r].files[TableOrder[1]].present
        /\ ~ run[r].files[TableOrder[Len(TableOrder)]].present
        /\ run[r].raised.type = "FileNotFoundError"

(* C7: no committed audit row has status `running`; and of every run,      *)
(* either a terminal audit row is committed, or neither its audit row nor  *)
(* any table row it wrote is committed.                                    *)
C7_NeverStuckRunning ==
    /\ \A x \in db.audit : x.status # "running"
    /\ \A r \in Runs :
        \/ \E x \in AuditOf(r) : x.status \in {"succeeded", "failed"}
        \/ /\ AuditOf(r) = {}
           /\ \A t \in TableSet : RowsOf(r, t) = {}

C7_Witness ==
    \E r, q \in Runs :
        /\ Done(r) /\ run[r].raised.type = "InFailedSqlTransaction"
        /\ Done(q) /\ run[q].caught.at = "commit"

(* C8: per batch identifier the audit entry gets one `begin` write and at  *)
(* most one terminal write: once set to `succeeded` or `failed` its status *)
(* is not written again, and a `succeeded` entry never becomes `failed`.   *)
C8_OneTerminalWrite ==
    \A r \in Runs :
        /\ Cardinality({i \in DOMAIN run[r].aud : run[r].aud[i] = "begin"}) <= 1
        /\ Cardinality({i \in DOMAIN run[r].aud : run[r].aud[i] # "begin"}) <= 1

(* C9: the error a failing run propagates to its caller is the error the   *)
(* failing load step raised, never one raised by the except block.         *)
C9_OriginalErrorSurfaces ==
    \A r \in Runs : LoadFailed(r) => run[r].raised = run[r].caught

(* C10: a run that met an error never returns normally, and when it ends   *)
(* either its `failed` audit row is committed or nothing of it is: no      *)
(* audit row and no table row of the run.                                  *)
C10_FailedOrNothing ==
    \A r \in Runs :
        (Done(r) /\ (run[r].caught # NoErr \/ run[r].raised # NoErr)) =>
            /\ run[r].outcome = "raised"
            /\ \/ \E x \in AuditOf(r) : x.status = "failed"
               \/ /\ AuditOf(r) = {}
                  /\ \A t \in TableSet : RowsOf(r, t) = {}

\* the committed tables when run r started, runs following one another
Before(r) == IF r = 1 THEN EmptyDb.tbl ELSE run[r - 1].after

\* rows without their _ingested_at
Plain(t, rows) == {[c \in ColSet(t) |-> x[c]] : x \in rows}

\* the parameter lists of the records, the timestamp left out
ValsOf(t, recs) ==
    [i \in DOMAIN recs |->
        [j \in 1..(Len(FILES[t].cols) + 1) |->
            IF j <= Len(FILES[t].cols) THEN recs[i][FILES[t].cols[j]] ELSE NullTs]]

\* load_table with a chunk larger than the file: lines 81-83 send every
\* record in one executemany
OneShot(t, rows, recs) ==
    ExecMany(rows, upsert_sql(t, FILES[t].cols, FILES[t].pk), ValsOf(t, recs))

(* C11: whatever the chunk size, a run that returned normally leaves each   *)
(* table, _ingested_at aside, as a single executemany of the whole file     *)
(* would (the load with a chunk larger than the file), and reports the      *)
(* same rows_submitted, the number of records.                             *)
C11_ChunkingTransparent ==
    \A r \in Runs :
        Returned(r) =>
            \A t \in TableSet :
                /\ Plain(t, run[r].after[t])
                     = Plain(t, OneShot(t, Before(r)[t], run[r].files[t].rows))
                /\ run[r].details[t].rows_submitted = Len(run[r].files[t].rows)

C11_Witness ==
    /\ Returned(1) /\ Returned(2)
    /\ LET rows == run[1].files["public.customers"].rows
       IN  /\ chunk < Len(rows)
           /\ Len(rows) = MaxRows
           /\ Len(run[1].log) > Len(TableOrder)
           /\ rows[1]["id"] = rows[MaxRows]["id"]
           /\ rows[1]["name"] # rows[MaxRows]["name"]
           /\ rows[2]["id"] # rows[1]["id"]

\* the records of run r's file for t that lack a declared column
Lacking(r, t) ==
    {i \in DOMAIN run[r].files[t].rows : DOMAIN run[r].files[t].rows[i] # ColSet(t)}

(* C12: a run whose input holds a record without one of the declared       *)
(* columns still returns normally, and the row of that record is stored    *)
(* with the empty value in the absent column.                              *)
C12_AbsentColumnTolerated ==
    \A r \in Runs :
        (Done(r) /\ \A t \in TableSet : run[r].files[t].present) =>
            \A t \in TableSet :
                \A i \in Lacking(r, t) :
                    /\ Returned(r)
                    /\ \E x \in run[r].after[t] :
                        /\ x[FILES[t].pk] = run[r].files[t].rows[i][FILES[t].pk]
                        /\ \A c \in ColSet(t) \ DOMAIN run[r].files[t].rows[i] : x[c] = ""

\* the runs that passed a record with key k of table t to executemany
Writers(t, k) == {r \in Runs : k \in KeysIn(t, SentRecs(r, t))}

\* the position of run r's commit among the acknowledged commits
CommitPos(r) == CHOOSE i \in DOMAIN commits : commits[i] = r

\* of the runs that wrote key k, the one that committed last
LastCommitter(t, k) ==
    CHOOSE w \in Writers(t, k) : \A q \in Writers(t, k) : CommitPos(q) <= CommitPos(w)

(* C13: once runs that may have overlapped have all returned, every audit  *)
(* row is terminal and each key holds exactly the row written by the run   *)
(* that committed last among the runs that submitted it: with disjoint     *)
(* keys the row of the only run that wrote it, with a shared key the last  *)
(* committer's.                                                            *)
C13_LastCommitWins ==
    (\A r \in Runs : Returned(r)) =>
        /\ \A r \in Runs : \E x \in AuditOf(r) : x.status = "succeeded"
        /\ \A x \in db.audit : x.status # "running"
        /\ \A t \in TableSet :
            /\ PkUnique(t, db.tbl[t])
            /\ \A k \in UNION {KeysIn(t, SentRecs(r, t)) : r \in Runs} :
                LET w == LastCommitter(t, k)
                IN  \E x \in db.tbl[t] :
                        /\ x[FILES[t].pk] = k
                        /\ x["_ingested_at"] \in run[w].stamps
                        /\ \A c \in ColSet(t) :
                              x[c] = LastRec(t, SentRecs(w, t), k)[c]

C13_Witness ==
    /\ Returned(1) /\ Returned(2)
    /\ commits = <<2, 1>>
    /\ LET one == run[1].files["public.customers"].rows
           two == run[2].files["public.customers"].rows
       IN  /\ KeysIn("public.customers", one) = {"1", "2"}
           /\ KeysIn("public.customers", two) = {"1"}
           /\ LastRec("public.customers", one, "1")["name"]
                # LastRec("public.customers", two, "1")["name"]

(* C14: the ledger is append-only: in every step each committed audit row  *)
(* stays as it is, unless the step is taken by the run whose batch_id the  *)
(* row carries, and then the row is still there; no row is ever deleted    *)
(* and no run changes the row of another run.                              *)
C14_LedgerAppendOnly ==
    [][\A x \in db.audit :
          \/ x \in db'.audit
          \/ \E r \in Runs :
                /\ run[r].batch_id = x.batch_id
                /\ run'[r] # run[r]
                /\ \E y \in db'.audit : y.batch_id = x.batch_id]_vars

C14_Witness ==
    /\ Cardinality(db.audit) = MaxRuns
    /\ \A r \in Runs : Done(r)
    /\ \E x \in AuditOf(1) : x.status = "succeeded"
    /\ \E x \in AuditOf(MaxRuns) : x.status = "failed"

\* how many records of table t the executemany calls of run r carried
Sent(r, t) == Len(Flat(run[r].log, t))

(* C15: in every run the executemany calls go through the datasets in the  *)
(* order customers, products, transactions: a call for a dataset comes     *)
(* only after every record of each earlier dataset was submitted, and      *)
(* after a dataset failed no call is made for a later one.                 *)
C15_DeclaredOrder ==
    \A r \in Runs :
        LET order == <<"public.customers", "public.products", "public.transactions">>
            pos(t) == CHOOSE i \in DOMAIN order : order[i] = t
            log == run[r].log
        IN  /\ \A i, j \in DOMAIN log :
                  i < j => pos(log[i].table) <= pos(log[j].table)
            /\ \A i \in DOMAIN log :
                  \A t \in TableSet :
                      pos(t) < pos(log[i].table) =>
                          Sent(r, t) = Len(run[r].files[t].rows)
            /\ run[r].caught.at = "load" =>
                  \A i \in DOMAIN log : pos(log[i].table) <= run[r].ti

C15_Witness ==
    /\ Returned(1)
    /\ Len(run[1].log) > Len(TableOrder)
    /\ run[1].log[Len(run[1].log)].table = "public.transactions"
    /\ Done(2) /\ run[2].caught.at = "load" /\ run[2].ti = 2
    /\ Len(run[2].log) = 1

\* the executemany calls of run r for table t, in order
CallsFor(r, t) == SelectSeq(run[r].log, LAMBDA e : e.table = t)

(* C16: for a file of N records and chunk size C, a completed load_table   *)
(* made (N + C - 1) \div C executemany calls: every call but the last      *)
(* carries C records, the last the 1..C records left (no call for N = 0,   *)
(* no empty call); the calls carry the records of the file once each, in   *)
(* file order; rows_submitted is N; and while the datasets are loaded      *)
(* nothing of the run is committed and its transaction stays open.         *)
C16_RoundTrips ==
    \A r \in Runs :
        /\ \A t \in DOMAIN run[r].details :
            LET N == Len(run[r].files[t].rows)
                calls == CallsFor(r, t)
                flat == Flat(run[r].log, t)
            IN  /\ Len(calls) = (N + chunk - 1) \div chunk
                /\ \A i \in DOMAIN calls :
                      Len(calls[i].batch) =
                          IF i < Len(calls) THEN chunk ELSE N - chunk * (Len(calls) - 1)
                /\ \A i \in DOMAIN calls : Len(calls[i].batch) >= 1
                /\ Len(flat) = N
                /\ \A i \in DOMAIN flat :
                      \A j \in DOMAIN FILES[t].cols :
                          flat[i][j] = run[r].files[t].rows[i][FILES[t].cols[j]]
                /\ run[r].details[t].rows_submitted = N
        /\ run[r].pc \in {"load", "succeed"} =>
            /\ \A i \in DOMAIN commits : commits[i] # r
            /\ run[r].txs = "active"
            /\ run[r].wr.audit # {}
            /\ \A t \in TableSet : RowsOf(r, t) = {}

C16_Witness ==
    /\ Returned(1)
    /\ chunk > 1 /\ chunk < MaxRows
    /\ Len(run[1].files["public.customers"].rows) = MaxRows
    /\ Len(CallsFor(1, "public.customers")) = (MaxRows + chunk - 1) \div chunk
    /\ Len(CallsFor(1, "public.products")) = 1
    /\ run[2].pc = "succeed"

(* C17: a finished run deleted no row: every primary key committed before  *)
(* it is still there, the keys afterwards are those and the keys of its    *)
(* input, one row each; and a row whose key is not in the input is         *)
(* unchanged in every column, _ingested_at included.                       *)
C17_OtherRowsUntouched ==
    \A r \in Runs :
        Done(r) =>
            \A t \in TableSet :
                LET old == Before(r)[t]
                    new == run[r].after[t]
                    pks(rows) == {x[FILES[t].pk] : x \in rows}
                IN  /\ pks(old) \subseteq pks(new)
                    /\ Returned(r) =>
                          pks(new) = pks(old) \cup KeysIn(t, run[r].files[t].rows)
                    /\ PkUnique(t, new)
                    /\ \A x \in old :
                          x[FILES[t].pk] \notin KeysIn(t, run[r].files[t].rows) =>
                              x \in new

C17_Witness ==
    /\ Returned(1) /\ Returned(2)
    /\ \E x \in run[1].after["public.customers"] :
          /\ x["id"] = "2"
          /\ x \in db.tbl["public.customers"]
          /\ x["_ingested_at"] \in run[1].stamps
    /\ KeysIn("public.customers", run[2].files["public.customers"].rows) = {"1"}
    /\ \E x \in run[1].after["public.customers"] :
          x["id"] = "1" /\ x \notin db.tbl["public.customers"]
    /\ Cardinality(db.tbl["public.customers"]) = 2

\* the upload_file calls made so far
Uploads == SelectSeq(up.calls, LAMBDA c : c.op = "upload_file")

(* C18: a call of backoff_upload makes at most max_retries upload          *)
(* attempts; no attempt follows a successful one and the call returns on   *)
(* it; the call raises exactly when attempt number max_retries failed;     *)
(* and the i-th failed attempt that is followed by a retry is followed by  *)
(* a sleep of 2, 4, 8, 16, then 30 seconds, none after the last failure.   *)
C18_BackoffBounded ==
    LET n == Len(Uploads)
        failed == {i \in 1..n : Uploads[i].result = "fail"}
        capped == <<2, 4, 8, 16, 30>>
    IN  /\ n = up.attempt
        /\ n <= up.max_retries
        /\ \A i \in 1..(n - 1) : i \in failed
        /\ up.pc = "upload" => n < up.max_retries /\ failed = 1..n
        /\ up.pc \in {"manifest", "done"} => n >= 1
        /\ (n >= 1 /\ n \notin failed) => up.pc \in {"manifest", "done"} /\ up.raised = "none"
        /\ up.outcome = "returned" => n \notin failed
        /\ up.raised # "none" <=> (n = up.max_retries /\ n \in failed)
        /\ Len(up.sleeps) = IF up.pc = "upload" THEN n ELSE n - 1
        /\ \A i \in DOMAIN up.sleeps : up.sleeps[i] = capped[IF i < 5 THEN i ELSE 5]

\* the place of a dataset's first occurrence among the requested names
FirstAt(ds) ==
    CHOOSE i \in DOMAIN up.datasets :
        up.datasets[i] = ds /\ \A j \in 1..(i - 1) : up.datasets[j] # ds

\* the dataset an upload_file call is for
DatasetOf(c) == c.key[5]

(* C19: when the local file of a requested dataset is missing, main()      *)
(* raises with no call made on the S3 client and no object stored;         *)
(* otherwise the uploads follow the order of the request, a dataset being  *)
(* uploaded only once every dataset before it is stored; and when an       *)
(* upload has failed for good, no later dataset is uploaded and the        *)
(* earlier ones stay stored. Whenever main() raises after an upload_file   *)
(* call, the datasets before the one of the last call are stored, those    *)
(* after it are not, and that one is stored exactly when one of its calls  *)
(* returned.                                                               *)
C19_UploadOrder ==
    LET requested == Range(up.datasets)
    IN  /\ (up.pc # "idle" /\ \E ds \in requested : ds \notin up.present) =>
              /\ up.pc = "done"
              /\ up.raised = "FileNotFoundError"
              /\ up.calls = <<>>
              /\ up.objects = {}
        /\ \A i, j \in DOMAIN Uploads :
              i < j => FirstAt(DatasetOf(Uploads[i])) <= FirstAt(DatasetOf(Uploads[j]))
        /\ \A i \in DOMAIN Uploads :
              \A ds \in requested :
                  FirstAt(ds) < FirstAt(DatasetOf(Uploads[i])) => KeyOf(ds) \in up.objects
        /\ up.raised = "UploadError" => Uploads[Len(Uploads)].result = "fail"
        /\ (up.outcome = "raised" /\ Uploads # <<>>) =>
              LET f == DatasetOf(Uploads[Len(Uploads)])
              IN  \A ds \in requested :
                      KeyOf(ds) \in up.objects <=>
                          \/ FirstAt(ds) < FirstAt(f)
                          \/ /\ ds = f
                             /\ \E i \in DOMAIN Uploads :
                                   /\ DatasetOf(Uploads[i]) = f
                                   /\ Uploads[i].result = "ok"
        /\ up.outcome = "returned" => up.objects = {KeyOf(ds) : ds \in requested}

C19_Witness ==
    /\ up.raised = "UploadError"
    /\ Len(up.datasets) = MaxDatasets
    /\ up.datasets[1] # up.datasets[MaxDatasets]
    /\ up.enable_versioning
    /\ up.objects = {KeyOf(up.datasets[1])}
    /\ Len(Uploads) = 1 + DefaultMaxRetries

====
